---- MODULE Spec2Model ----
(***************************************************************************)
(* Model of static/js/scripts.js: the DOMContentLoaded handler (password   *)
(* visibility toggles, Bootstrap tooltips, confirm-before-delete) and the  *)
(* two helpers formatDate and showToast.                                   *)
(*                                                                         *)
(* Strings whose content matters (console records, date strings) are       *)
(* sequences of one-character strings, so that formatting and parsing are  *)
(* computed and "contains" is a real substring test.                       *)
(***************************************************************************)
EXTENDS Integers, Sequences, FiniteSets, TLC

\* ---------------------------------------------------------------- bounds
NumElems == 2
MaxConsole == 2

Elems == 1..NumElems

VARIABLES
    elems,            \* markup of each element: classes and data-confirm
    tooltipMarker,    \* e is matched by [data-bs-toggle="tooltip"]
    inputType,        \* .type of e.previousElementSibling, "null" if none
    innerHTML,        \* icon class inside e's innerHTML
    toggleListeners,  \* elements carrying the toggle click listener
    confirmListeners, \* elements carrying the confirm click listener
    tooltips,         \* number of bootstrap.Tooltip instances built on e
    phase,            \* "loading" | "ready" | "faulted"
    ev,               \* outcome of the last click event
    snap,             \* pair state before the current run of clicks on one toggle
    console,          \* records written by console.log
    toastArgs,        \* arguments of the last showToast call
    dateOut           \* outcome of the last formatDate call

vars == <<elems, tooltipMarker, inputType, innerHTML, toggleListeners,
          confirmListeners, tooltips, phase, ev, snap, console, toastArgs,
          dateOut>>

domVars == <<elems, tooltipMarker, inputType, innerHTML, toggleListeners,
             confirmListeners, tooltips, phase, ev, snap>>

\* ------------------------------------------------------------ DOM values
PASSWORD == "password"
TEXT == "text"
EYE == "fa-eye"
EYE_SLASH == "fa-eye-slash"
NoSibling == "null"

InputTypes == {PASSWORD, TEXT, "email"}
Icons == {EYE, EYE_SLASH, "none"}

\* dataset.confirm: <<>> when the attribute is absent, <<text>> otherwise
ConfirmValues == {<<>>, <<"">>, <<"Sure?">>}

HasConfirmAttr(e) == elems[e].confirm # <<>>

\* JavaScript truthiness of this.dataset.confirm
Truthy(c) == c # <<>> /\ c[1] # ""

Masked(t) == t = PASSWORD

NoEvent == [target |-> 0, listeners |-> {}, shown |-> FALSE,
            answer |-> FALSE, prevented |-> FALSE, fault |-> FALSE]

NoSnap == [target |-> 0, type |-> NoSibling, icon |-> "none", n |-> 0]

NoDate == [called |-> FALSE, arg |-> <<>>, tz |-> 0, locale |-> "en-US",
           time |-> [valid |-> FALSE, days |-> 0, mins |-> 0],
           value |-> <<>>, threw |-> FALSE]

\* Markup the page can supply for one element.  Fields the script never
\* reads for an element of that class are fixed.
Markup ==
    { m \in [toggle : BOOLEAN, danger : BOOLEAN, confirm : ConfirmValues,
             type : InputTypes \cup {NoSibling}, icon : Icons] :
        /\ ~m.toggle => (m.type = NoSibling /\ m.icon = "none")
        /\ ~m.danger => m.confirm = <<>>
        /\ (m.toggle /\ m.type \notin {PASSWORD, TEXT}) => m.icon = EYE
        /\ (m.toggle /\ m.danger) =>
              (m.type = PASSWORD /\ m.icon = EYE /\ m.confirm = <<"Sure?">>) }

Init ==
    /\ \E page \in [Elems -> Markup] :
          /\ elems = [e \in Elems |->
                        [toggle |-> page[e].toggle, danger |-> page[e].danger,
                         confirm |-> page[e].confirm]]
          /\ inputType = [e \in Elems |-> page[e].type]
          /\ innerHTML = [e \in Elems |-> page[e].icon]
    /\ tooltipMarker \in [Elems -> BOOLEAN]
    /\ toggleListeners = {}
    /\ confirmListeners = {}
    /\ tooltips = [e \in Elems |-> 0]
    /\ phase = "loading"
    /\ ev = NoEvent
    /\ snap = NoSnap
    /\ console = <<>>
    /\ toastArgs = <<>>
    /\ dateOut = NoDate

\* ------------------------------------------------- DOMContentLoaded handler
\* Position of e among the elements matched by the tooltip selector
\* (document order).
Rank(e) == Cardinality({d \in Elems : tooltipMarker[d] /\ d <= e})

Matched == {e \in Elems : tooltipMarker[e]}

\* The constructor call number k throws (k = 0: no call throws; a missing
\* toolkit is k = 1).
MapFaults(k) == k # 0 /\ k <= Cardinality(Matched)

\* Variant: the last matched element is skipped.
BuiltSkipLast(k) == IF MapFaults(k) THEN k - 1 ELSE Cardinality(Matched) - 1

Built(k) == IF MapFaults(k) THEN k - 1 ELSE Cardinality(Matched)

\* Variant: the confirm listeners are attached even when step 2 throws.
DOMContentLoadedIsolated(k) ==
    /\ phase = "loading"
    /\ toggleListeners' = {e \in Elems : elems[e].toggle}
    /\ tooltips' = [e \in Elems |->
                      IF tooltipMarker[e] /\ Rank(e) <= Built(k) THEN 1 ELSE 0]
    /\ confirmListeners' = {e \in Elems : elems[e].danger}
    /\ phase' = IF MapFaults(k) THEN "faulted" ELSE "ready"
    /\ UNCHANGED <<elems, tooltipMarker, inputType, innerHTML, ev, snap,
                   console, toastArgs, dateOut>>

DOMContentLoaded(k) ==
    /\ phase = "loading"
    /\ toggleListeners' = {e \in Elems : elems[e].toggle}
    /\ tooltips' = [e \in Elems |->
                      IF tooltipMarker[e] /\ Rank(e) <= Built(k) THEN 1 ELSE 0]
    /\ confirmListeners' = IF MapFaults(k) THEN {}
                           ELSE {e \in Elems : elems[e].danger}
    /\ phase' = IF MapFaults(k) THEN "faulted" ELSE "ready"
    /\ UNCHANGED <<elems, tooltipMarker, inputType, innerHTML, ev, snap,
                   console, toastArgs, dateOut>>

\* ------------------------------------------------------------ click event
\* Variant: the else branch also sets 'text'.
ToggleTypeStuck(t) == TEXT

\* Toggle listener (lines 6-15) applied to a sibling type.
ToggleType(t) == IF t = PASSWORD THEN TEXT ELSE PASSWORD

\* Variant: the two icons are swapped.
ToggleIconSwapped(t) == IF t = PASSWORD THEN EYE ELSE EYE_SLASH

ToggleIcon(t) == IF t = PASSWORD THEN EYE_SLASH ELSE EYE

ToggleRuns(e) == e \in toggleListeners /\ inputType[e] # NoSibling

\* Reading .type of a null sibling throws a TypeError.
ToggleThrows(e) == e \in toggleListeners /\ inputType[e] = NoSibling

\* Variant: the dataset.confirm test is missing.
ConfirmShownNoGuard(e) == e \in confirmListeners

\* Confirm listener (lines 26-32): the dialog is presented.
ConfirmShown(e) == e \in confirmListeners /\ Truthy(elems[e].confirm)

ConfirmPrevents(e, answer) == ConfirmShown(e) /\ ~answer

\* Listeners of e in registration order.
ListenersOf(e) == (IF e \in toggleListeners THEN {"toggle"} ELSE {})
                  \cup (IF e \in confirmListeners THEN {"confirm"} ELSE {})

\* Variant: every input that precedes a control is set, not only the sibling.
TypesAfterAll(e) == [d \in Elems |->
                       IF inputType[d] = NoSibling THEN NoSibling
                       ELSE ToggleType(inputType[e])]

\* input.type = ... on the sibling of the clicked control
TypesAfter(e) == [inputType EXCEPT ![e] = ToggleType(inputType[e])]

\* this.innerHTML = ... on the clicked control
IconsAfter(e) == [innerHTML EXCEPT ![e] = ToggleIcon(inputType[e])]

\* answer: what the user answers when confirm() is presented.
Click(e, answer) ==
    /\ inputType' = IF ToggleRuns(e) THEN TypesAfter(e) ELSE inputType
    /\ innerHTML' = IF ToggleRuns(e) THEN IconsAfter(e) ELSE innerHTML
    /\ ev' = [target |-> e, listeners |-> ListenersOf(e),
              shown |-> ConfirmShown(e), answer |-> answer,
              prevented |-> ConfirmPrevents(e, answer),
              fault |-> ToggleThrows(e)]
    /\ snap' = IF ~ToggleRuns(e) THEN NoSnap
               ELSE IF snap.target = e /\ snap.n = 1
                    THEN [snap EXCEPT !.n = 2]
                    ELSE [target |-> e, type |-> inputType[e],
                          icon |-> innerHTML[e], n |-> 1]
    /\ UNCHANGED <<elems, tooltipMarker, toggleListeners, confirmListeners,
                   tooltips, phase, console, toastArgs, dateOut>>

\* Another script marks e as a tooltip trigger after page load (sets the
\* attribute, or inserts the marked element into the document).
MarkTooltip(e) ==
    /\ phase # "loading"
    /\ ~tooltipMarker[e]
    /\ tooltipMarker' = [tooltipMarker EXCEPT ![e] = TRUE]
    /\ UNCHANGED <<elems, inputType, innerHTML, toggleListeners,
                   confirmListeners, tooltips, phase, ev, snap, console,
                   toastArgs, dateOut>>

\* ------------------------------------------------------------- showToast
STR_INFO == <<"i", "n", "f", "o">>
STR_SUCCESS == <<"s", "u", "c", "c", "e", "s", "s">>
STR_SAVED == <<"S", "a", "v", "e", "d">>
STR_OOPS == <<"O", "o", "p", "s", "!">>

Messages == {STR_SAVED, STR_OOPS}

\* The type argument: <<>> when omitted, <<tag>> when passed.
TypeArgs == {<<>>, <<STR_SUCCESS>>}

\* Default parameter value: type = 'info'
TypeOf(typeArg) == IF typeArg = <<>> THEN STR_INFO ELSE typeArg[1]

\* Variant: the message is left out of the record.
ToastRecordNoMessage(message, typeArg) ==
    <<"[">> \o TypeOf(typeArg) \o <<"]">>

\* Template literal `[${type}] ${message}`
ToastRecord(message, typeArg) ==
    <<"[">> \o TypeOf(typeArg) \o <<"]", " ">> \o message

showToast(message, typeArg) ==
    /\ Len(console) < MaxConsole
    /\ console' = Append(console, ToastRecord(message, typeArg))
    /\ toastArgs' = <<message, typeArg>>
    /\ UNCHANGED <<elems, tooltipMarker, inputType, innerHTML,
                   toggleListeners, confirmListeners, tooltips, phase, ev,
                   snap, dateOut>>

\* ------------------------------------------------------------ formatDate
Digits == {"0", "1", "2", "3", "4", "5", "6", "7", "8", "9"}

DigitVal(c) == CASE c = "0" -> 0 [] c = "1" -> 1 [] c = "2" -> 2
                 [] c = "3" -> 3 [] c = "4" -> 4 [] c = "5" -> 5
                 [] c = "6" -> 6 [] c = "7" -> 7 [] c = "8" -> 8
                 [] c = "9" -> 9

DigitChar(d) == <<"0", "1", "2", "3", "4", "5", "6", "7", "8", "9">>[d + 1]

RECURSIVE NumVal(_)
NumVal(s) == IF s = <<>> THEN 0
             ELSE 10 * NumVal(SubSeq(s, 1, Len(s) - 1)) + DigitVal(s[Len(s)])

RECURSIVE NumStr(_)
NumStr(n) == IF n < 10 THEN <<DigitChar(n)>>
             ELSE NumStr(n \div 10) \o <<DigitChar(n % 10)>>

DATE_ISO == <<"2", "0", "2", "4", "-", "0", "3", "-", "0", "5">>
DATE_EVE == <<"1", "9", "9", "9", "-", "1", "2", "-", "3", "1">>
DATE_ROLL == <<"2", "0", "2", "3", "-", "0", "2", "-", "2", "9">>
DATE_YEAR0 == <<"0", "0", "0", "0", "-", "0", "1", "-", "0", "1">>
DATE_MONTH13 == <<"2", "0", "2", "4", "-", "1", "3", "-", "0", "5">>
DATE_DAY00 == <<"2", "0", "2", "4", "-", "0", "3", "-", "0", "0">>
DATE_TIME == <<"2", "0", "2", "4", "-", "0", "3", "-", "0", "5", "T", "1", "0", ":", "0", "0">>
DATE_LEGACY == <<"M", "a", "r", " ", "5", ",", " ", "2", "0", "2", "4">>
DATE_SLASH == <<"2", "0", "2", "4", "/", "0", "3", "/", "0", "5">>
DATE_MIDNIGHT == <<"2", "0", "2", "4", "-", "0", "3", "-", "0", "5", "T", "2", "4", ":", "0", "0">>
DATE_WORDS == <<"n", "o", "t", "-", "a", "-", "d", "a", "t", "e">>
DATE_EMPTY == <<>>

DateStrings == {DATE_ISO, DATE_EVE, DATE_ROLL, DATE_YEAR0, DATE_MONTH13,
                DATE_DAY00, DATE_TIME, DATE_MIDNIGHT, DATE_LEGACY, DATE_SLASH,
                DATE_WORDS, DATE_EMPTY}

\* The environment of a call: the offset of local time from UTC in minutes
\* (east positive) and the default locale.
TimeZones == {0 - 480, 0, 330}

Locales == {"en-US", "de-DE"}

INVALID_DATE == <<"I", "n", "v", "a", "l", "i", "d", " ", "D", "a", "t", "e">>

MonthShort == << <<"J", "a", "n">>, <<"F", "e", "b">>, <<"M", "a", "r">>,
                 <<"A", "p", "r">>, <<"M", "a", "y">>, <<"J", "u", "n">>,
                 <<"J", "u", "l">>, <<"A", "u", "g">>, <<"S", "e", "p">>,
                 <<"O", "c", "t">>, <<"N", "o", "v">>, <<"D", "e", "c">> >>

\* Abbreviated month names of the de-DE locale.
MonthShortDe == << <<"J", "a", "n", ".">>,
                   <<"F", "e", "b", ".">>,
                   <<"M", "ä", "r", "z">>,
                   <<"A", "p", "r", ".">>,
                   <<"M", "a", "i">>,
                   <<"J", "u", "n", "i">>,
                   <<"J", "u", "l", "i">>,
                   <<"A", "u", "g", ".">>,
                   <<"S", "e", "p", "t", ".">>,
                   <<"O", "k", "t", ".">>,
                   <<"N", "o", "v", ".">>,
                   <<"D", "e", "z", ".">> >>

\* Day number (0 = 1 January 1970) of a date of the proleptic Gregorian
\* calendar, and back.
DaysFromCivil(y, m, d) ==
    LET yy == IF m <= 2 THEN y - 1 ELSE y
        era == yy \div 400
        yoe == yy - era * 400
        mp == IF m > 2 THEN m - 3 ELSE m + 9
        doy == (153 * mp + 2) \div 5 + d - 1
        doe == yoe * 365 + yoe \div 4 - yoe \div 100 + doy
    IN era * 146097 + doe - 719468

CivilFromDays(z) ==
    LET zz == z + 719468
        era == zz \div 146097
        doe == zz - era * 146097
        yoe == (doe - doe \div 1460 + doe \div 36524 - doe \div 146096)
               \div 365
        doy == doe - (365 * yoe + yoe \div 4 - yoe \div 100)
        mp == (5 * doy + 2) \div 153
        d == doy - (153 * mp + 2) \div 5 + 1
        m == IF mp < 10 THEN mp + 3 ELSE mp - 9
        y == yoe + era * 400 + (IF m <= 2 THEN 1 ELSE 0)
    IN [year |-> y, month |-> m, day |-> d]

\* A time value: the UTC day number and the minute of that day.
NaN == [valid |-> FALSE, days |-> 0, mins |-> 0]

Shift(t, minutes) ==
    [valid |-> TRUE,
     days |-> t.days + (t.mins + minutes) \div 1440,
     mins |-> (t.mins + minutes) % 1440]

DigitsAt(s, idx) == \A i \in idx : s[i] \in Digits

\* The date forms YYYY, YYYY-MM and YYYY-MM-DD of the date-time string
\* format.
IsYear(s) == Len(s) = 4 /\ DigitsAt(s, 1..4)

IsYearMonth(s) ==
    Len(s) = 7 /\ s[5] = "-" /\ DigitsAt(s, {1, 2, 3, 4, 6, 7})

IsIsoShape(s) ==
    /\ Len(s) = 10
    /\ s[5] = "-" /\ s[8] = "-"
    /\ DigitsAt(s, {1, 2, 3, 4, 6, 7, 9, 10})

\* Month 1..12 and day 1..31 in every month are accepted; a day past the
\* end of the month rolls over into the next month.
DateFields(s) ==
    [year |-> NumVal(SubSeq(s, 1, 4)),
     month |-> IF Len(s) >= 7 THEN NumVal(SubSeq(s, 6, 7)) ELSE 1,
     day |-> IF Len(s) >= 10 THEN NumVal(SubSeq(s, 9, 10)) ELSE 1]

FieldsInRange(f) == f.month \in 1..12 /\ f.day \in 1..31

DayOf(f) == DaysFromCivil(f.year, f.month, 1) + f.day - 1

\* The form YYYY-MM-DDTHH:mm[:ss[.s{1,3}]] with an optional Z or +HH:mm /
\* -HH:mm.
IsClockPair(s) == Len(s) = 5 /\ s[3] = ":" /\ DigitsAt(s, {1, 2, 4, 5})

HasOffset(r) ==
    /\ Len(r) >= 11
    /\ r[Len(r) - 5] \in {"+", "-"}
    /\ IsClockPair(SubSeq(r, Len(r) - 4, Len(r)))

ZoneOf(r) == IF r # <<>> /\ r[Len(r)] = "Z" THEN "Z"
             ELSE IF HasOffset(r) THEN "offset" ELSE "local"

ClockOf(r) == CASE ZoneOf(r) = "Z" -> SubSeq(r, 1, Len(r) - 1)
                [] ZoneOf(r) = "offset" -> SubSeq(r, 1, Len(r) - 6)
                [] ZoneOf(r) = "local" -> r

IsClock(c) ==
    /\ Len(c) \in {5, 8, 10, 11, 12}
    /\ IsClockPair(SubSeq(c, 1, 5))
    /\ NumVal(SubSeq(c, 4, 5)) <= 59
    /\ \/ NumVal(SubSeq(c, 1, 2)) <= 23
       \/ c = <<"2", "4", ":", "0", "0">>
    /\ Len(c) >= 8 =>
          /\ c[6] = ":" /\ DigitsAt(c, {7, 8})
          /\ NumVal(SubSeq(c, 7, 8)) <= 59
    /\ Len(c) >= 10 => (c[9] = "." /\ DigitsAt(c, 10..Len(c)))

OffsetMinutes(r) ==
    LET o == SubSeq(r, Len(r) - 4, Len(r))
        n == 60 * NumVal(SubSeq(o, 1, 2)) + NumVal(SubSeq(o, 4, 5))
    IN IF r[Len(r) - 5] = "-" THEN 0 - n ELSE n

IsDateTime(s) ==
    /\ Len(s) >= 16
    /\ IsIsoShape(SubSeq(s, 1, 10))
    /\ FieldsInRange(DateFields(SubSeq(s, 1, 10)))
    /\ s[11] = "T"
    /\ LET r == SubSeq(s, 12, Len(s))
       IN /\ IsClock(ClockOf(r))
          /\ ZoneOf(r) = "offset" =>
                /\ NumVal(SubSeq(r, Len(r) - 4, Len(r) - 3)) <= 23
                /\ NumVal(SubSeq(r, Len(r) - 1, Len(r))) <= 59

\* The fallback form "Mon D, YYYY" (English month abbreviation, day 1..31 of
\* one or two digits, year 1000..9999), read as local midnight.
MonthNumber(w) == CHOOSE m \in 1..12 : MonthShort[m] = w

IsMonthDayYear(s) ==
    /\ Len(s) \in {11, 12}
    /\ \E m \in 1..12 : MonthShort[m] = SubSeq(s, 1, 3)
    /\ s[4] = " "
    /\ DigitsAt(s, 5..(Len(s) - 6))
    /\ NumVal(SubSeq(s, 5, Len(s) - 6)) \in 1..31
    /\ s[Len(s) - 5] = "," /\ s[Len(s) - 4] = " "
    /\ DigitsAt(s, (Len(s) - 3)..Len(s))
    /\ s[Len(s) - 3] # "0"

MonthDayYearFields(s) ==
    [year |-> NumVal(SubSeq(s, Len(s) - 3, Len(s))),
     month |-> MonthNumber(SubSeq(s, 1, 3)),
     day |-> NumVal(SubSeq(s, 5, Len(s) - 6))]

IsDateOnly(s) ==
    \/ IsYear(s)
    \/ IsYearMonth(s) /\ FieldsInRange(DateFields(s))
    \/ IsIsoShape(s) /\ FieldsInRange(DateFields(s))

\* Strings whose time value is fixed.
Conforms(s) == IsDateOnly(s) \/ IsDateTime(s) \/ IsMonthDayYear(s)

\* Strings that are not dates: YYYY-MM-DD with a month or day out of range,
\* and strings without any digit.
Unrecognizable(s) ==
    \/ IsIsoShape(s) /\ ~FieldsInRange(DateFields(s))
    \/ \A i \in 1..Len(s) : s[i] \notin Digits

\* A date-only form is UTC midnight; a date-time form without offset and
\* the fallback form are local time.
IsoTime(s, tz) ==
    IF IsDateOnly(s)
    THEN [valid |-> TRUE, days |-> DayOf(DateFields(s)), mins |-> 0]
    ELSE IF IsMonthDayYear(s)
    THEN Shift([valid |-> TRUE, days |-> DayOf(MonthDayYearFields(s)),
                mins |-> 0], 0 - tz)
    ELSE LET r == SubSeq(s, 12, Len(s))
             c == ClockOf(r)
             wall == [valid |-> TRUE,
                      days |-> DayOf(DateFields(SubSeq(s, 1, 10))),
                      mins |-> 60 * NumVal(SubSeq(c, 1, 2))
                               + NumVal(SubSeq(c, 4, 5))]
             off == CASE ZoneOf(r) = "Z" -> 0
                      [] ZoneOf(r) = "offset" -> OffsetMinutes(r)
                      [] ZoneOf(r) = "local" -> tz
         IN Shift(wall, 0 - off)

\* new Date(dateString) may have the time value t.  Every other string goes
\* to the parser's implementation-specific fallback, which may reject it or
\* read any date from it.
NewDate(s, tz, t) ==
    IF Conforms(s) THEN t = IsoTime(s, tz)
    ELSE IF Unrecognizable(s) THEN t = NaN
    ELSE TRUE

\* Time values the fallback is given to choose from.
TimeValues ==
    {NaN} \cup {IsoTime(s, tz) : s \in {d \in DateStrings : Conforms(d)},
                                 tz \in TimeZones}

\* Without an era, year 0 and the years before it print as 1 - year.
YearText(y) == NumStr(IF y >= 1 THEN y ELSE 1 - y)

\* toLocaleDateString(undefined, {year: 'numeric', month: 'short',
\* day: 'numeric'}): the local calendar date in the default locale.
ToLocaleDateString(t, tz, locale) ==
    IF ~t.valid THEN INVALID_DATE
    ELSE LET c == CivilFromDays(Shift(t, tz).days)
         IN CASE locale = "en-US" ->
                   MonthShort[c.month] \o <<" ">> \o NumStr(c.day)
                   \o <<",", " ">> \o YearText(c.year)
              [] locale = "de-DE" ->
                   NumStr(c.day) \o <<".", " ">> \o MonthShortDe[c.month]
                   \o <<" ">> \o YearText(c.year)

\* Variant: formatting with toISOString, which throws on an invalid date.
formatDateViaISO(dateString) ==
    /\ \E tz \in TimeZones, locale \in Locales, t \in TimeValues :
          /\ NewDate(dateString, tz, t)
          /\ dateOut' = [called |-> TRUE, arg |-> dateString, tz |-> tz,
                         locale |-> locale, time |-> t,
                         value |-> IF t.valid THEN dateString ELSE <<>>,
                         threw |-> ~t.valid]
    /\ UNCHANGED <<elems, tooltipMarker, inputType, innerHTML,
                   toggleListeners, confirmListeners, tooltips, phase, ev,
                   snap, console, toastArgs>>

formatDate(dateString) ==
    /\ \E tz \in TimeZones, locale \in Locales, t \in TimeValues :
          /\ NewDate(dateString, tz, t)
          /\ dateOut' = [called |-> TRUE, arg |-> dateString, tz |-> tz,
                         locale |-> locale, time |-> t,
                         value |-> ToLocaleDateString(t, tz, locale),
                         threw |-> FALSE]
    /\ UNCHANGED <<elems, tooltipMarker, inputType, innerHTML,
                   toggleListeners, confirmListeners, tooltips, phase, ev,
                   snap, console, toastArgs>>

Next ==
    \/ \E k \in 0..NumElems : DOMContentLoaded(k)
    \/ \E e \in Elems, answer \in BOOLEAN : Click(e, answer)
    \/ \E e \in Elems : MarkTooltip(e)

Spec == Init /\ [][Next]_vars

\* showToast called from page code, before or after page load.
NextToast ==
    \/ \E k \in 0..NumElems : DOMContentLoaded(k)
    \/ \E message \in Messages, typeArg \in TypeArgs :
          showToast(message, typeArg)

SpecToast == Init /\ [][NextToast]_vars

\* formatDate called from page code, before or after page load, on a page
\* without toggle controls and danger actions.
InitDate == Init /\ \A e \in Elems : ~elems[e].toggle /\ ~elems[e].danger

NextDate ==
    \/ \E k \in 0..NumElems : DOMContentLoaded(k)
    \/ \E dateString \in DateStrings : formatDate(dateString)

SpecDate == InitDate /\ [][NextDate]_vars

\* ================================================================ claims
Contains(s, sub) ==
    \E i \in 1..(Len(s) - Len(sub) + 1) : SubSeq(s, i, i + Len(sub) - 1) = sub

\* The icon of control e agrees with the mode of its sibling input.
Agrees(type, icon) == \/ (Masked(type) /\ icon = EYE)
                      \/ (~Masked(type) /\ icon = EYE_SLASH)

Agree(e) == Agrees(inputType[e], innerHTML[e])

TogglePair(e) == elems[e].toggle /\ inputType[e] # NoSibling

\* The step is a click on control e that its toggle listener handled.
ToggleClickOn(e) == snap' # snap /\ snap'.target = e

\* C1: for a danger action whose confirm listener is bound and that carries
\* a data-confirm attribute (the empty string included), the default action
\* of a click is cancelled if and only if the user rejects the confirmation.
C1_CancelledIffRejected ==
    (/\ ev.target # 0
     /\ "confirm" \in ev.listeners
     /\ HasConfirmAttr(ev.target))
    => (ev.prevented <=> ~ev.answer)

\* C2: a click on a danger action without a data-confirm attribute never
\* presents the confirmation dialog and never cancels the default action.
C2_NoPromptProceeds ==
    (/\ ev.target # 0
     /\ elems[ev.target].danger
     /\ ~HasConfirmAttr(ev.target))
    => (~ev.shown /\ ~ev.prevented)

C2_Witness ==
    /\ ev.target # 0
    /\ "confirm" \in ev.listeners
    /\ ~HasConfirmAttr(ev.target)
    /\ ~ev.answer
    /\ ~ev.prevented

\* C3 as stated: in every reachable state, from page load on, the icon of
\* each toggle control agrees with the masking mode of its sibling input.
C3_IconAlwaysAgrees == \A e \in Elems : TogglePair(e) => Agree(e)

\* C3 amended: the icon of a toggle control agrees with the masking mode of
\* its sibling input after every handled click on it, and agreement, once
\* there, is kept by every step; at page load it is as the markup has it.
C3_IconAgreesOnceClicked ==
    [][\A e \in Elems :
          TogglePair(e) =>
            /\ ToggleClickOn(e) => Agree(e)'
            /\ Agree(e) => Agree(e)']_vars

C3_Witness ==
    /\ snap.n = 1
    /\ ~Agrees(snap.type, snap.icon)
    /\ Agree(snap.target)

\* C4 as stated: for every initial type and icon, two clicks on a toggle
\* control restore the original masking mode and the original icon.
C4_TwoClicksRestoreAll ==
    snap.n = 2 =>
        /\ Masked(inputType[snap.target]) = Masked(snap.type)
        /\ innerHTML[snap.target] = snap.icon

\* C4 amended: two clicks on a toggle control restore the original masking
\* mode of its sibling input, and restore the original icon whenever that
\* icon agreed with the original masking mode.
C4_TwoClicksRestore ==
    snap.n = 2 =>
        /\ Masked(inputType[snap.target]) = Masked(snap.type)
        /\ Agrees(snap.type, snap.icon) => innerHTML[snap.target] = snap.icon

C4_Witness ==
    /\ snap.n = 2
    /\ Agrees(snap.type, snap.icon)
    /\ innerHTML[snap.target] = snap.icon
    /\ inputType[snap.target] = snap.type

\* C5: one handled click on a toggle control flips the masking mode of its
\* sibling input (masked becomes text, anything else becomes password) and
\* sets the icon to match: closed eye when revealed, open eye when masked.
C5_ClickFlips ==
    [][\A e \in Elems :
          ToggleClickOn(e) =>
            /\ Masked(inputType[e]) => inputType'[e] = TEXT
            /\ ~Masked(inputType[e]) => inputType'[e] = PASSWORD
            /\ inputType'[e] = TEXT => innerHTML'[e] = EYE_SLASH
            /\ inputType'[e] = PASSWORD => innerHTML'[e] = EYE]_vars

C5_Witness ==
    /\ snap.n = 1
    /\ ~Masked(snap.type)
    /\ inputType[snap.target] = PASSWORD
    /\ innerHTML[snap.target] = EYE

\* C6 as stated: every page load creates exactly one tooltip binding for
\* each element matched at that moment and none for any other; no binding
\* exists before the load and none is created after it.
C6_OneBindingPerMarked ==
    [][/\ (phase = "loading" /\ phase' # "loading") =>
             \A e \in Elems :
                tooltips'[e] = IF tooltipMarker[e] THEN 1 ELSE 0
       /\ (phase = "loading" /\ phase' = "loading") =>
             \A e \in Elems : tooltips'[e] = 0
       /\ phase # "loading" => tooltips' = tooltips]_vars

\* C6 amended: a page load in which no constructor call throws creates
\* exactly one binding for each element matched at that moment; a load in
\* which call j throws creates exactly one for each matched element before
\* the j-th and none for the j-th and later ones; no load creates a binding
\* for an unmatched element; no binding exists before the load and none is
\* created after it, so an element marked after the load never has one.
C6_BindingsOnlyAtLoad ==
    [][/\ (phase = "loading" /\ phase' = "ready") =>
             \A e \in Elems :
                tooltips'[e] = IF tooltipMarker[e] THEN 1 ELSE 0
       /\ (phase = "loading" /\ phase' = "faulted") =>
             \E j \in 1..NumElems :
                /\ \E e \in Elems : tooltipMarker[e] /\ Rank(e) = j
                /\ \A e \in Elems :
                      tooltips'[e] = IF tooltipMarker[e] /\ Rank(e) < j
                                     THEN 1 ELSE 0
       /\ (phase = "loading" /\ phase' = "loading") =>
             \A e \in Elems : tooltips'[e] = 0
       /\ phase # "loading" => tooltips' = tooltips]_vars

C6_Witness ==
    /\ phase = "ready"
    /\ \E e \in Elems : tooltipMarker[e] /\ tooltips[e] = 0
    /\ \E e \in Elems : tooltipMarker[e] /\ tooltips[e] = 1

\* C7: a showToast call appends exactly one console record, which contains
\* the tag ("info" when the type is omitted) and the message, and changes
\* nothing else.
C7_ToastLogsOnly ==
    [][console' # console =>
          /\ Len(console') = Len(console) + 1
          /\ SubSeq(console', 1, Len(console)) = console
          /\ Contains(console'[Len(console')], toastArgs'[1])
          /\ Contains(console'[Len(console')],
                      IF toastArgs'[2] = <<>> THEN STR_INFO
                      ELSE toastArgs'[2][1])
          /\ UNCHANGED <<domVars, dateOut>>]_vars

C7_Witness ==
    /\ phase = "ready"
    /\ \E e \in Elems : tooltips[e] = 1
    /\ Len(console) = 2
    /\ toastArgs = <<STR_SAVED, <<>>>>
    /\ Contains(console[2], STR_INFO)

\* C8: formatDate of a string that new Date does not parse does not throw
\* and returns the string "Invalid Date", in every time zone and locale.
C8_InvalidDateNoThrow ==
    (dateOut.called /\ ~dateOut.time.valid)
    => (~dateOut.threw /\ dateOut.value = INVALID_DATE)

C8_Witness ==
    /\ dateOut.called
    /\ dateOut.arg = DATE_WORDS
    /\ dateOut.locale = "de-DE"
    /\ ~dateOut.time.valid
    /\ dateOut.value = INVALID_DATE

\* C9: when the tooltip constructor throws during page load (which takes a
\* matched element), the toggle listeners are attached, no confirm listener
\* is ever attached, and no click presents the dialog or is cancelled.
C9_FaultSkipsConfirm ==
    phase = "faulted" =>
        /\ \E e \in Elems : tooltipMarker[e] /\ tooltips[e] = 0
        /\ toggleListeners = {e \in Elems : elems[e].toggle}
        /\ confirmListeners = {}
        /\ ~ev.shown /\ ~ev.prevented

C9_Witness ==
    /\ phase = "faulted"
    /\ ev.target # 0
    /\ ev.listeners = {"toggle"}
    /\ elems[ev.target].danger
    /\ Truthy(elems[ev.target].confirm)
    /\ ~ev.answer
    /\ ~ev.prevented

\* C10: a handled click on toggle control e changes only the type of its
\* own sibling input and its own icon; every other pair, the tooltip
\* bindings and the listeners are unchanged, and no dialog is presented
\* unless e is also a danger action.
C10_ClickFrame ==
    [][\A e \in Elems :
          ToggleClickOn(e) =>
            /\ \A d \in Elems \ {e} :
                  inputType'[d] = inputType[d] /\ innerHTML'[d] = innerHTML[d]
            /\ UNCHANGED <<elems, tooltipMarker, toggleListeners,
                           confirmListeners, tooltips, phase, console,
                           toastArgs, dateOut>>
            /\ ~elems[e].danger => ~ev'.shown]_vars

C10_Witness ==
    /\ snap.n = 1
    /\ inputType[snap.target] # snap.type
    /\ \E d \in Elems \ {snap.target} : TogglePair(d) /\ tooltips[d] = 1

====
